---------------------------- MODULE Spec2Model ----------------------------
(***************************************************************************)
(* Model of the dataset pipeline of the LLM Data Platform:                 *)
(*   src/data/ingestion.py, cleaning.py, filtering.py, versioning.py and   *)
(*   pipeline.py, and of the model registry, src/training/registry.py.     *)
(*                                                                         *)
(* Texts (Sample.input, Sample.output, cell and line contents) are         *)
(* sequences of one-character strings; ids, sources, file names and keys   *)
(* are TLA+ strings.  Python values of untyped documents (YAML config      *)
(* values, JSON cell values) are tagged pairs <<type, value>>.  A Python   *)
(* call that can raise returns a record [ok, val, err].                    *)
(***************************************************************************)
EXTENDS Integers, Sequences, FiniteSets, TLC

VARIABLES
    fs,      \* the artifact tree: version path -> [dir, data, meta]
    pc,      \* per run: where the run is
    loc,     \* per run: the locals of the run
    hist,    \* per version path: the last create_dataset_version call that returned
    calls,   \* number of runs started so far
    fnIn,    \* the sample sequence a library function is applied to
    fnOp,    \* which library function was applied ("none" before)
    fnArg,   \* its second argument (a threshold or a config mapping)
    fnOut,   \* what it returned
    reg,       \* the registry file
    regStart,  \* the registry file as it was found at the start
    regBefore, \* the registry file as the last registry call found it
    regOp,     \* the last registry call ("none" before)
    regArg,    \* its argument (a metadata record or a model version)
    regOut,    \* what it returned or raised
    regLog     \* the metadata records registered so far, in call order

vars == <<fs, pc, loc, hist, calls, fnIn, fnOp, fnArg, fnOut,
          reg, regStart, regBefore, regOp, regArg, regOut, regLog>>
pipeVars == <<fs, pc, loc, hist, calls>>
fnVars == <<fnIn, fnOp, fnArg, fnOut>>
regVars == <<reg, regStart, regBefore, regOp, regArg, regOut, regLog>>

----------------------------------------------------------------------------
(* Bounds of the model *)

\* longest sample sequence handed to a library function
MaxSamples == 3
\* number of runs (pipeline runs or direct create_dataset_version calls)
MaxCalls == 2

----------------------------------------------------------------------------
(* Python values *)

PyBool(b) == <<"bool", b>>
PyInt(n) == <<"int", n>>
PyStr(s) == <<"str", s>>
PyNone == <<"none", 0>>
PyDate(s) == <<"date", s>>

\* the empty dict
EmptyDict == <<>>

\* bool(v)
Truthy(v) ==
    CASE v[1] = "bool" -> v[2]
      [] v[1] = "int" -> v[2] # 0
      [] v[1] = "str" -> v[2] # ""
      [] v[1] = "none" -> FALSE
      [] OTHER -> TRUE

\* dict.get(key, default)
Get(d, key, default) == IF key \in DOMAIN d THEN d[key] ELSE default

\* values usable where Python compares with an int (bool is a subclass of int)
IsNumber(v) == v[1] \in {"int", "bool"}
NumberOf(v) == IF v[1] = "bool" THEN (IF v[2] THEN 1 ELSE 0) ELSE v[2]

Ok(v) == [ok |-> TRUE, val |-> v, err |-> ""]
Raise(e) == [ok |-> FALSE, val |-> <<>>, err |-> e]

----------------------------------------------------------------------------
(* Texts *)

\* the characters str.strip() removes, among those the model uses
Whitespace == {" ", "\t", "\n", "\r"}

RECURSIVE Rep(_, _)
Rep(c, n) == IF n <= 0 THEN <<>> ELSE <<c>> \o Rep(c, n - 1)

RECURSIVE lstrip(_)
lstrip(t) == IF t # <<>> /\ Head(t) \in Whitespace THEN lstrip(Tail(t)) ELSE t

RECURSIVE rstrip(_, _)
rstrip(t, chars) ==
    IF t # <<>> /\ t[Len(t)] \in chars THEN rstrip(SubSeq(t, 1, Len(t) - 1), chars) ELSE t

strip(t) == rstrip(lstrip(t), Whitespace)

Sample(id, input, output, source) ==
    [id |-> id, input |-> input, output |-> output, source |-> source]

----------------------------------------------------------------------------
(* cleaning.py *)

\* faulty variant: keeps a sample when either field is non-blank
keeps_non_blank_either(s) == strip(s.input) # <<>> \/ strip(s.output) # <<>>

\* "if inp.strip() and out.strip()"; every loader stores str, never None
keeps_non_blank(s) == strip(s.input) # <<>> /\ strip(s.output) # <<>>

RECURSIVE remove_empty_loop(_, _)
remove_empty_loop(samples, result) ==
    IF samples = <<>> THEN result
    ELSE remove_empty_loop(Tail(samples),
            IF keeps_non_blank(Head(samples)) THEN Append(result, Head(samples))
            ELSE result)

remove_empty_samples(samples) == remove_empty_loop(samples, <<>>)

\* faulty variant: keys the seen-set on the whole sample
dedup_key_whole(s) == <<s.id, s.input, s.output, s.source>>

dedup_key(s) == <<s.input, s.output>>

\* faulty variant: dropping a duplicate empties the seen-set
RECURSIVE remove_duplicate_forgetful_loop(_, _, _)
remove_duplicate_forgetful_loop(samples, seen, result) ==
    IF samples = <<>> THEN result
    ELSE LET key == dedup_key(Head(samples)) IN
         IF key \notin seen
         THEN remove_duplicate_forgetful_loop(Tail(samples), seen \cup {key},
                                              Append(result, Head(samples)))
         ELSE remove_duplicate_forgetful_loop(Tail(samples), {}, result)

remove_duplicate_forgetful(samples) ==
    remove_duplicate_forgetful_loop(samples, {}, <<>>)

RECURSIVE remove_duplicate_loop(_, _, _)
remove_duplicate_loop(samples, seen, result) ==
    IF samples = <<>> THEN result
    ELSE LET key == dedup_key(Head(samples)) IN
         IF key \notin seen
         THEN remove_duplicate_loop(Tail(samples), seen \cup {key},
                                    Append(result, Head(samples)))
         ELSE remove_duplicate_loop(Tail(samples), seen, result)

remove_duplicate_samples(samples) == remove_duplicate_loop(samples, {}, <<>>)

----------------------------------------------------------------------------
(* filtering.py *)

DefaultMaxRepeat == 10

long_enough(s, min_length) ==
    Len(s.input) >= min_length /\ Len(s.output) >= min_length

filter_by_min_length(samples, min_length) ==
    IF min_length <= 0 THEN samples
    ELSE SelectSeq(samples, LAMBDA s : long_enough(s, min_length))

\* re.compile(r"(.)\1{n,}").search(text): some character other than a newline
\* ("." without DOTALL) followed by at least n copies of itself
regex_repeat_search(text, n) ==
    \E i \in 1..Len(text) :
        /\ text[i] # "\n"
        /\ i + n <= Len(text)
        /\ \A j \in 1..n : text[i + j] = text[i]

has_excessive_repeat(text, max_repeat) ==
    IF text = <<>> \/ max_repeat < 1 THEN FALSE
    ELSE regex_repeat_search(text, max_repeat)

filter_noise(samples, max_repeat) ==
    SelectSeq(samples, LAMBDA s :
        /\ ~has_excessive_repeat(s.input, max_repeat)
        /\ ~has_excessive_repeat(s.output, max_repeat))

\* faulty variant: removes duplicates whenever the key is present, whatever its value
clean_and_filter_key_presence(samples, config) ==
    LET out1 == remove_empty_samples(samples)
        out2 == IF "remove_duplicates" \in DOMAIN config
                THEN remove_duplicate_samples(out1)
                ELSE out1
        out3 == IF "min_length" \in DOMAIN config
                THEN filter_by_min_length(out2, NumberOf(config["min_length"]))
                ELSE out2
        out4 == IF Truthy(Get(config, "filter_noise", PyBool(FALSE)))
                THEN filter_noise(out3,
                        NumberOf(Get(config, "noise_max_repeat", PyInt(DefaultMaxRepeat))))
                ELSE out3
    IN  out4

clean_and_filter(samples, config) ==
    LET out1 == remove_empty_samples(samples)
        out2 == IF Truthy(Get(config, "remove_duplicates", PyBool(FALSE)))
                THEN remove_duplicate_samples(out1)
                ELSE out1
        out3 == IF "min_length" \in DOMAIN config
                THEN filter_by_min_length(out2, NumberOf(config["min_length"]))
                ELSE out2
        out4 == IF Truthy(Get(config, "filter_noise", PyBool(FALSE)))
                THEN filter_noise(out3,
                        NumberOf(Get(config, "noise_max_repeat", PyInt(DefaultMaxRepeat))))
                ELSE out3
    IN  out4

\* "min_length <= 0" raises TypeError on a value that is neither int nor bool;
\* so does "max_repeat < 1", which is evaluated once a sample with a non-empty
\* text reaches the noise filter
clean_and_filter_raises(samples, config) ==
    LET out1 == remove_empty_samples(samples)
        out2 == IF Truthy(Get(config, "remove_duplicates", PyBool(FALSE)))
                THEN remove_duplicate_samples(out1)
                ELSE out1
        bad_min == "min_length" \in DOMAIN config /\ ~IsNumber(config["min_length"])
        out3 == IF "min_length" \in DOMAIN config /\ ~bad_min
                THEN filter_by_min_length(out2, NumberOf(config["min_length"]))
                ELSE out2
    IN  \/ bad_min
        \/ /\ Truthy(Get(config, "filter_noise", PyBool(FALSE)))
           /\ ~IsNumber(Get(config, "noise_max_repeat", PyInt(DefaultMaxRepeat)))
           /\ out3 # <<>>

----------------------------------------------------------------------------
(* ingestion.py *)

\* str.lower(), on the letters the model's header names use
UpperToLower ==
    ("I" :> "i") @@ ("N" :> "n") @@ ("P" :> "p") @@ ("U" :> "u") @@ ("T" :> "t")
    @@ ("O" :> "o")

lower(text) ==
    [k \in 1..Len(text) |->
        IF text[k] \in DOMAIN UpperToLower THEN UpperToLower[text[k]] ELSE text[k]]

RECURSIVE Digits(_)
Digits(n) ==
    IF n < 10 THEN <<ToString(n)>> ELSE Digits(n \div 10) \o <<ToString(n % 10)>>

\* str(v) of a JSON value
py_str(v) ==
    CASE v[1] = "str" -> v[2]
      [] v[1] = "int" -> IF v[2] < 0 THEN <<"-">> \o Digits(-v[2]) ELSE Digits(v[2])
      [] v[1] = "bool" -> IF v[2] THEN <<"T", "r", "u", "e">>
                          ELSE <<"F", "a", "l", "s", "e">>
      [] OTHER -> <<"N", "o", "n", "e">>

\* faulty variant: ids count records from 1
sample_id_from_one(source, i) == source \o "_" \o ToString(i + 1)

\* f"{source}_{i}"
sample_id(source, i) == source \o "_" \o ToString(i)

\* "for i, item in enumerate(data)": items holds data[i..], samples the
\* samples built so far
RECURSIVE load_json_loop(_, _, _, _)
load_json_loop(items, i, source, samples) ==
    IF items = <<>> THEN Ok(samples)
    ELSE LET item == Head(items) IN
         IF item[1] # "dict" THEN Raise("ValueError")
         ELSE LET inp == py_str(Get(item[2], "input", <<"str", <<>>>>))
                  out == py_str(Get(item[2], "output", <<"str", <<>>>>))
              IN  load_json_loop(Tail(items), i + 1, source,
                      Append(samples, Sample(sample_id(source, i), inp, out, source)))

load_json(file, source) ==
    CASE file.content[1] = "missing" -> Raise("FileNotFoundError")
      [] file.content[1] = "invalid" -> Raise("JSONDecodeError")
      [] file.content[2][1] # "list" -> Raise("ValueError")
      [] OTHER -> load_json_loop(file.content[2][2], 0, source, <<>>)

\* csv.DictReader: the first row read is the header (none in an empty file);
\* blank rows after it are skipped
csv_fieldnames(rows) == IF rows = <<>> THEN <<>> ELSE Head(rows)
csv_rows(rows) == IF rows = <<>> THEN <<>> ELSE SelectSeq(Tail(rows), LAMBDA r : r # <<>>)

SetMax(S) == CHOOSE m \in S : \A x \in S : x <= m

\* key_lower.get(name, default), key_lower = {f.lower(): f for f in fieldnames}
key_lower_get(fieldnames, name, default) ==
    LET K == {k \in 1..Len(fieldnames) : lower(fieldnames[k]) = name}
    IN  IF K = {} THEN default ELSE fieldnames[SetMax(K)]

\* row.get(col, "") followed by the None -> "" replacement, for the dict
\* DictReader builds from a row: zip(fieldnames, row), the fieldnames past the
\* end of a short row set to None
csv_cell(fieldnames, row, col) ==
    LET K == {k \in 1..Len(fieldnames) : fieldnames[k] = col}
    IN  IF K = {} THEN <<>>
        ELSE IF SetMax(K) > Len(row) THEN <<>>
        ELSE row[SetMax(K)]

RECURSIVE load_csv_loop(_, _, _, _, _, _)
load_csv_loop(rows, i, source, fieldnames, cols, samples) ==
    IF rows = <<>> THEN samples
    ELSE load_csv_loop(Tail(rows), i + 1, source, fieldnames, cols,
            Append(samples,
                   Sample(sample_id(source, i),
                          csv_cell(fieldnames, Head(rows), cols[1]),
                          csv_cell(fieldnames, Head(rows), cols[2]),
                          source)))

input_col_of(fieldnames) ==
    key_lower_get(fieldnames, <<"i", "n", "p", "u", "t">>,
                  IF fieldnames # <<>> THEN fieldnames[1] ELSE <<>>)

\* only called with a header: the default "fieldnames[0]" is taken when there
\* is a single column
output_col_of(fieldnames) ==
    key_lower_get(fieldnames, <<"o", "u", "t", "p", "u", "t">>,
                  IF Len(fieldnames) > 1 THEN fieldnames[2] ELSE fieldnames[1])

load_csv(file, source) ==
    IF file.content[1] = "missing" THEN Raise("FileNotFoundError")
    ELSE LET fieldnames == csv_fieldnames(file.content[2])
             rows == csv_rows(file.content[2])
         IN  IF rows = <<>> THEN Ok(<<>>)
             \* the default of key_lower.get("output", ...) is evaluated first
             ELSE IF fieldnames = <<>> THEN Raise("IndexError")
             ELSE IF input_col_of(fieldnames) = <<>> \/ output_col_of(fieldnames) = <<>>
                  THEN Raise("ValueError")
             ELSE Ok(load_csv_loop(rows, 0, source, fieldnames,
                        <<input_col_of(fieldnames), output_col_of(fieldnames)>>, <<>>))

\* position of the first tab of a line, 0 if it has none
first_tab(line) ==
    IF \E k \in 1..Len(line) : line[k] = "\t"
    THEN CHOOSE k \in 1..Len(line) : line[k] = "\t" /\ \A j \in 1..(k - 1) : line[j] # "\t"
    ELSE 0

RECURSIVE load_text_loop(_, _, _, _)
load_text_loop(lines, i, source, samples) ==
    IF lines = <<>> THEN samples
    ELSE LET line == rstrip(Head(lines), {"\n", "\r"})
             t == first_tab(line)
             inp == IF t > 0 THEN SubSeq(line, 1, t - 1) ELSE line
             out == IF t > 0 THEN SubSeq(line, t + 1, Len(line)) ELSE <<>>
         IN  load_text_loop(Tail(lines), i + 1, source,
                 Append(samples, Sample(sample_id(source, i), inp, out, source)))

load_text(file, source) ==
    IF file.content[1] = "missing" THEN Raise("FileNotFoundError")
    ELSE Ok(load_text_loop(file.content[2], 0, source, <<>>))

\* file.suffix is Path(path).suffix.lower()
load_dataset(file, source) ==
    CASE file.suffix = ".json" -> load_json(file, source)
      [] file.suffix = ".csv" -> load_csv(file, source)
      [] file.suffix \in {".txt", ".text", ""} -> load_text(file, source)
      [] OTHER -> Raise("ValueError")

----------------------------------------------------------------------------
(* The files the pipeline reads *)

JStr(text) == <<"str", text>>
JInt(n) == <<"int", n>>
JDict(d) == <<"dict", d>>

\* a lone surrogate (the JSON escape \ud800): json.load accepts it, the utf-8
\* codec cannot encode it
Surrogate == "\\ud800"

File(suffix, content) == [suffix |-> suffix, content |-> content]

JsonList(items) == File(".json", <<"json", <<"list", items>>>>)
CsvFile(rows) == File(".csv", <<"csv", rows>>)

hInput == <<"I", "n", "p", "u", "t">>
hOUTPUT == <<"O", "U", "T", "P", "U", "T">>
hOutput == <<"o", "u", "t", "p", "u", "t">>

DataFiles ==
    ("data.json" :> JsonList(<<
        JDict([input |-> JStr(<<"a", "b">>), output |-> JStr(<<"b">>)]),
        JDict([input |-> JStr(<<" ">>), output |-> JStr(<<"b">>)]),
        JDict([input |-> JStr(<<"a", "b">>), output |-> JStr(<<"b">>)]),
        JDict([input |-> JInt(12), output |-> JStr(<<"a", "\n", "\"", "\\">>)]),
        JDict([output |-> JStr(<<"b">>)]) >>))
    @@ ("surrogate.json" :> JsonList(<<
        JDict([input |-> JStr(<<"a">>), output |-> JStr(<<"b">>)]),
        JDict([input |-> JStr(<<Surrogate>>), output |-> JStr(<<"b">>)]),
        JDict([input |-> JStr(<<"c">>), output |-> JStr(<<"b">>)]) >>))
    @@ ("object.json" :> File(".json", <<"json", <<"object">>>>))
    @@ ("items.json" :> JsonList(<<
        JDict([input |-> JStr(<<"a">>), output |-> JStr(<<"b">>)]),
        <<"number">> >>))
    @@ ("invalid.json" :> File(".json", <<"invalid">>))
    @@ ("absent.json" :> File(".json", <<"missing">>))
    @@ ("data.csv" :> CsvFile(<<
        <<hInput, <<"x">>, hOUTPUT>>,
        <<<<"a", "a">>, <<"c">>, <<"b">>>>,
        <<>>,
        <<<<"a", "a", "a">>, <<"c">>, <<"b", "b">>, <<"d">>>>,
        <<<<"a">>>>,
        <<<<"b">>, <<"c">>, <<"a">>>> >>))
    @@ ("one_column.csv" :> CsvFile(<< <<<<"t">>>>, <<<<"a">>>>, <<<<"b">>>> >>))
    @@ ("output_first.csv" :> CsvFile(<<
        <<hOutput, <<"x">>>>,
        <<<<"a">>, <<"b">>>> >>))
    @@ ("empty.csv" :> CsvFile(<<>>))
    @@ ("header_only.csv" :> CsvFile(<< <<<<"t">>>> >>))
    @@ ("blank_header.csv" :> CsvFile(<< <<>>, <<<<"a">>, <<"b">>>> >>))
    @@ ("unnamed.csv" :> CsvFile(<< <<<<>>, <<"x">>>>, <<<<"a">>, <<"b">>>> >>))
    @@ ("data.txt" :> File(".txt", <<"text", <<
        <<"a", "\t", "b", "\n">>,
        <<"c", "\n">>,
        <<"a", "a", "\t", "b", "\t", "c", "\n">>,
        <<"\n">>,
        <<"a", "\t", "b">> >>>>))
    @@ ("data.xml" :> File(".xml", <<"text", <<>>>>))

----------------------------------------------------------------------------
(* versioning.py *)

_sample_to_dict(s) ==
    [id |-> s.id, input |-> s.input, output |-> s.output, source |-> s.source]

\* the escapes json.dumps(ensure_ascii=False) applies to the model's characters
JsonEscapes ==
    ("\"" :> <<"\\", "\"">>) @@ ("\\" :> <<"\\", "\\">>) @@ ("\n" :> <<"\\", "n">>)
    @@ ("\r" :> <<"\\", "r">>) @@ ("\t" :> <<"\\", "t">>)

RECURSIVE json_escape(_)
json_escape(text) ==
    IF text = <<>> THEN <<>>
    ELSE (IF Head(text) \in DOMAIN JsonEscapes THEN JsonEscapes[Head(text)]
          ELSE <<Head(text)>>) \o json_escape(Tail(text))

json_string(text) == <<"\"">> \o json_escape(text) \o <<"\"">>

json_key(k) == json_string(<<k>>) \o <<": ">>

\* json.dumps(d, sort_keys=True, ensure_ascii=False): the keys in sorted
\* order id < input < output < source; an id or a source is one token of text
json_dumps_sample(d) ==
    <<"{">> \o json_key("id") \o json_string(<<d.id>>)
    \o <<", ">> \o json_key("input") \o json_string(d.input)
    \o <<", ">> \o json_key("output") \o json_string(d.output)
    \o <<", ">> \o json_key("source") \o json_string(<<d.source>>)
    \o <<"}">>

\* faulty variant: the line leaves the source out
sample_line_without_source(s) ==
    <<"{">> \o json_key("id") \o json_string(<<s.id>>)
    \o <<", ">> \o json_key("input") \o json_string(s.input)
    \o <<", ">> \o json_key("output") \o json_string(s.output)
    \o <<"}", "\n">>

sample_line(s) == json_dumps_sample(_sample_to_dict(s)) \o <<"\n">>

\* str.encode("utf-8") raises UnicodeEncodeError on a lone surrogate
utf8_encodable(line) == \A k \in 1..Len(line) : line[k] # Surrogate

\* the digest, injective on the bytes fed to it
sha256_hexdigest(bytes) == <<"sha256", bytes>>

RECURSIVE hasher_update_loop(_, _)
hasher_update_loop(samples, bytes) ==
    IF samples = <<>> THEN bytes
    ELSE hasher_update_loop(Tail(samples), bytes \o sample_line(Head(samples)))

compute_dataset_hash(samples) == sha256_hexdigest(hasher_update_loop(samples, <<>>))

\* json.dump raises TypeError on a value that is no JSON type
json_serializable(config) == \A k \in DOMAIN config : config[k][1] # "date"

\* faulty variant: num_samples counts one sample too many
metadata_off_by_one(samples, version_name, config) ==
    [dataset_version |-> version_name,
     num_samples |-> Len(samples) + 1,
     config |-> config,
     dataset_hash |-> compute_dataset_hash(samples)]

metadata_of(samples, version_name, config) ==
    [dataset_version |-> version_name,
     num_samples |-> Len(samples),
     config |-> config,
     dataset_hash |-> compute_dataset_hash(samples)]

\* Path(output_dir) / version_name
version_path_of(output_dir, version_name) == <<output_dir, version_name>>

----------------------------------------------------------------------------
(* The artifact tree *)

DefaultOutputDir == "artifacts/datasets"
OutputDirs == {DefaultOutputDir, "out"}
VersionNames == {"v1", "v2"}
Paths == OutputDirs \X VersionNames

NoFile == <<"absent">>
DataFile(text) == <<"file", text>>
MetaFile(metadata) == <<"file", "json", metadata>>
\* the metadata file once opened with "w"
EmptyMeta == <<"file", "empty">>
\* what a json.dump that raised at the config left behind
TruncatedMeta(metadata) ==
    <<"file", "truncated", [dataset_version |-> metadata.dataset_version,
                            num_samples |-> metadata.num_samples]>>

NoVersion == [dir |-> FALSE, data |-> NoFile, meta |-> NoFile]

\* a write of buf at offset 0 of a file holding old
Overlay(old, buf) == buf \o SubSeq(old, Len(buf) + 1, Len(old))

----------------------------------------------------------------------------
(* The config files and the direct calls *)

Doc(d) == <<"doc", "dict", d>>

Cfg(input_path, source, version_name) ==
    [input_path |-> PyStr(input_path), source |-> PyStr(source),
     version_name |-> PyStr(version_name)]

\* one plain config per data file
PlainConfigs ==
    [n \in {f \o ".yaml" : f \in DOMAIN DataFiles} |->
        Doc(Cfg(CHOOSE f \in DOMAIN DataFiles : f \o ".yaml" = n, "web", "v1"))]

ConfigFiles ==
    ("absent.yaml" :> <<"missing">>)
    @@ ("broken.yaml" :> <<"malformed">>)
    @@ ("list.yaml" :> <<"doc", "list">>)
    @@ ("no_input.yaml" :> Doc([source |-> PyStr("web"), version_name |-> PyStr("v1")]))
    @@ ("no_source.yaml" :>
            Doc([input_path |-> PyStr("data.json"), version_name |-> PyStr("v1")]))
    @@ ("no_version.yaml" :>
            Doc([input_path |-> PyStr("data.json"), source |-> PyStr("web")]))
    @@ ("dedup.yaml" :>
            Doc(Cfg("data.json", "web", "v1")
                @@ ("remove_duplicates" :> PyBool(TRUE)) @@ ("min_length" :> PyInt(1))))
    @@ ("noise.yaml" :>
            Doc(Cfg("data.csv", "crm", "v2") @@ ("output_dir" :> PyStr("out"))
                @@ ("filter_noise" :> PyBool(TRUE)) @@ ("noise_max_repeat" :> PyInt(2))))
    @@ ("text.yaml" :>
            Doc(Cfg("data.txt", "web", "v2") @@ ("min_length" :> PyInt(0))
                @@ ("noise_max_repeat" :> PyInt(1))))
    @@ ("dated.yaml" :>
            Doc(Cfg("data.txt", "web", "v1") @@ ("created" :> PyDate("2024-01-01"))))
    @@ ("bad_min.yaml" :>
            Doc(Cfg("data.json", "web", "v1") @@ ("min_length" :> PyStr("3"))))
    @@ ("bad_noise.yaml" :>
            Doc(Cfg("data.json", "web", "v1") @@ ("filter_noise" :> PyInt(1))
                @@ ("noise_max_repeat" :> PyNone)))
    @@ PlainConfigs

sX == Sample("0", <<"a">>, <<"b">>, "test")
sY == Sample("1", <<"c">>, <<"d", "\n">>, "test")

\* direct calls create_dataset_version(samples, version_name, config, output_dir)
ApiCalls ==
    { <<<<sX, sY>>, "v1", [min_length |-> PyInt(1)], DefaultOutputDir>>,
      <<<<sX, sY>>, "v2", EmptyDict, "out">>,
      <<<<sY, sX>>, "v1", [min_length |-> PyInt(1)], DefaultOutputDir>>,
      <<<<sX>>, "v1", [min_length |-> PyInt(2)], DefaultOutputDir>>,
      <<<<>>, "v2", EmptyDict, "out">>,
      <<<<[sX EXCEPT !.id = "9"], sY>>, "v2", EmptyDict, DefaultOutputDir>>,
      <<<<[sX EXCEPT !.input = <<"a", "a">>], sY>>, "v2", EmptyDict, DefaultOutputDir>>,
      <<<<[sX EXCEPT !.output = <<>>], sY>>, "v2", EmptyDict, DefaultOutputDir>>,
      <<<<[sX EXCEPT !.source = "alt"], sY>>, "v2", EmptyDict, DefaultOutputDir>>,
      <<<<sX, sY>>, "v1", [created |-> PyDate("2024-01-01")], DefaultOutputDir>> }

----------------------------------------------------------------------------
(* pipeline.py *)

\* lines 42-51: the keys clean_and_filter uses
filter_config_of(config) ==
    (IF "min_length" \in DOMAIN config
     THEN "min_length" :> config["min_length"] ELSE EmptyDict)
    @@ (IF "remove_duplicates" \in DOMAIN config
        THEN "remove_duplicates" :> config["remove_duplicates"] ELSE EmptyDict)
    @@ (IF Truthy(Get(config, "filter_noise", PyNone))
        THEN ("filter_noise" :> PyBool(TRUE))
             @@ (IF "noise_max_repeat" \in DOMAIN config
                 THEN "noise_max_repeat" :> config["noise_max_repeat"] ELSE EmptyDict)
        ELSE EmptyDict)

\* open(input_path) on a name that is no file of the model raises as a
\* missing file does
data_file(input_path) ==
    IF input_path \in DOMAIN DataFiles THEN DataFiles[input_path]
    ELSE File(".json", <<"missing">>)

\* build_dataset_from_config up to the call of create_dataset_version
\* (lines 31-59): what it raises, or the arguments of the call
pipeline_prepare(config_path) ==
    LET yaml == ConfigFiles[config_path] IN
    IF yaml[1] = "missing" THEN Raise("FileNotFoundError")
    ELSE IF yaml[1] = "malformed" THEN Raise("YAMLError")
    ELSE IF yaml[2] # "dict" THEN Raise("ValueError")
    ELSE LET config == yaml[3] IN
    IF "input_path" \notin DOMAIN config \/ "source" \notin DOMAIN config
    THEN Raise("KeyError")
    ELSE LET input_path == config["input_path"][2]
             source == config["source"][2]
             loaded == load_dataset(data_file(input_path), source)
         IN
    IF ~loaded.ok THEN Raise(loaded.err)
    ELSE IF clean_and_filter_raises(loaded.val, filter_config_of(config))
    THEN Raise("TypeError")
    ELSE IF "version_name" \notin DOMAIN config THEN Raise("KeyError")
    ELSE Ok([input_path |-> input_path,
             source |-> source,
             loaded |-> loaded.val,
             samples |-> clean_and_filter(loaded.val, filter_config_of(config)),
             version_name |-> config["version_name"][2],
             config |-> config,
             output_dir |-> Get(config, "output_dir", PyStr(DefaultOutputDir))[2]])

----------------------------------------------------------------------------
(* The runs *)

Runs == {"A", "B"}
\* the runs of the sequential specification
SeqRuns == {"A"}

NoLocals ==
    [entry |-> "", input_path |-> "", source |-> "", loaded |-> <<>>,
     samples |-> <<>>, version_name |-> "", config |-> EmptyDict, output_dir |-> "",
     buf |-> <<>>, i |-> 0, err |-> "", before |-> <<>>]

Active(r) == pc[r] \notin {"idle", "returned", "raised"}

PathOf(r) == version_path_of(loc[r].output_dir, loc[r].version_name)

\* build_dataset_from_config(config_path), up to the first write
StartPipeline(r) ==
    /\ ~Active(r)
    /\ calls < MaxCalls
    /\ \E config_path \in DOMAIN ConfigFiles :
        LET prep == pipeline_prepare(config_path) IN
        IF prep.ok
        THEN /\ pc' = [pc EXCEPT ![r] = "mkdir"]
             /\ loc' = [loc EXCEPT ![r] =
                    [NoLocals EXCEPT !.entry = "pipeline",
                                     !.input_path = prep.val.input_path,
                                     !.source = prep.val.source,
                                     !.loaded = prep.val.loaded,
                                     !.samples = prep.val.samples,
                                     !.version_name = prep.val.version_name,
                                     !.config = prep.val.config,
                                     !.output_dir = prep.val.output_dir,
                                     !.before = fs]]
        ELSE /\ pc' = [pc EXCEPT ![r] = "raised"]
             /\ loc' = [loc EXCEPT ![r] =
                    [NoLocals EXCEPT !.entry = "pipeline",
                                     !.input_path =
                                        IF ConfigFiles[config_path][1] = "doc"
                                           /\ ConfigFiles[config_path][2] = "dict"
                                        THEN Get(ConfigFiles[config_path][3],
                                                 "input_path", PyStr(""))[2]
                                        ELSE "",
                                     !.err = prep.err,
                                     !.before = fs]]
    /\ calls' = calls + 1
    /\ UNCHANGED <<fs, hist>>
    /\ UNCHANGED fnVars
    /\ UNCHANGED regVars

\* a direct call of create_dataset_version
CallCreateVersion(r) ==
    /\ ~Active(r)
    /\ calls < MaxCalls
    /\ \E call \in ApiCalls :
        loc' = [loc EXCEPT ![r] =
                    [NoLocals EXCEPT !.entry = "api",
                                     !.samples = call[1],
                                     !.version_name = call[2],
                                     !.config = call[3],
                                     !.output_dir = call[4],
                                     !.before = fs]]
    /\ pc' = [pc EXCEPT ![r] = "mkdir"]
    /\ calls' = calls + 1
    /\ UNCHANGED <<fs, hist>>
    /\ UNCHANGED fnVars
    /\ UNCHANGED regVars

\* version_path.mkdir(parents=True, exist_ok=True)
Mkdir(r) ==
    /\ pc[r] = "mkdir"
    /\ fs' = [fs EXCEPT ![PathOf(r)].dir = TRUE]
    /\ pc' = [pc EXCEPT ![r] = "open_data"]
    /\ UNCHANGED <<loc, hist, calls>>
    /\ UNCHANGED fnVars
    /\ UNCHANGED regVars

\* faulty variant: the data file is opened without truncating it
opened_data_no_truncate(old) == IF old = NoFile THEN DataFile(<<>>) ELSE old

\* open(data_path, "w"): the file is created or truncated
opened_data(old) == DataFile(<<>>)

OpenData(r) ==
    /\ pc[r] = "open_data"
    /\ fs' = [fs EXCEPT ![PathOf(r)].data = opened_data(@)]
    /\ pc' = [pc EXCEPT ![r] = "write"]
    /\ loc' = [loc EXCEPT ![r].buf = <<>>, ![r].i = 1]
    /\ UNCHANGED <<hist, calls>>
    /\ UNCHANGED fnVars
    /\ UNCHANGED regVars

\* closing the data file writes what f.write buffered
flushed(old, buf) == DataFile(Overlay(old[2], buf))

\* one turn of "for s in samples: f.write(line)"; f.write encodes the line,
\* and an error leaves the with-block, which closes (flushes) the file
WriteLine(r) ==
    /\ pc[r] = "write"
    /\ loc[r].i <= Len(loc[r].samples)
    /\ LET line == sample_line(loc[r].samples[loc[r].i]) IN
       IF utf8_encodable(line)
       THEN /\ loc' = [loc EXCEPT ![r].buf = @ \o line, ![r].i = @ + 1]
            /\ UNCHANGED <<fs, pc, hist>>
       ELSE /\ fs' = [fs EXCEPT ![PathOf(r)].data = flushed(@, loc[r].buf)]
            /\ pc' = [pc EXCEPT ![r] = "raised"]
            /\ loc' = [loc EXCEPT ![r].err = "UnicodeEncodeError"]
            /\ hist' = [hist EXCEPT ![PathOf(r)] = <<"failed">>]
    /\ UNCHANGED calls
    /\ UNCHANGED fnVars
    /\ UNCHANGED regVars

\* the end of the with-block: the data file is closed
CloseData(r) ==
    /\ pc[r] = "write"
    /\ loc[r].i > Len(loc[r].samples)
    /\ fs' = [fs EXCEPT ![PathOf(r)].data = flushed(@, loc[r].buf)]
    /\ pc' = [pc EXCEPT ![r] = "open_meta"]
    /\ UNCHANGED <<loc, hist, calls>>
    /\ UNCHANGED fnVars
    /\ UNCHANGED regVars

\* compute_dataset_hash(samples), the metadata dict, open(metadata_path, "w")
OpenMeta(r) ==
    /\ pc[r] = "open_meta"
    /\ fs' = [fs EXCEPT ![PathOf(r)].meta = EmptyMeta]
    /\ pc' = [pc EXCEPT ![r] = "dump_meta"]
    /\ UNCHANGED <<loc, hist, calls>>
    /\ UNCHANGED fnVars
    /\ UNCHANGED regVars

\* json.dump(metadata, f, indent=2) and the return
DumpMeta(r) ==
    /\ pc[r] = "dump_meta"
    /\ LET metadata == metadata_of(loc[r].samples, loc[r].version_name, loc[r].config) IN
       IF json_serializable(loc[r].config)
       THEN /\ fs' = [fs EXCEPT ![PathOf(r)].meta = MetaFile(metadata)]
            /\ pc' = [pc EXCEPT ![r] = "returned"]
            /\ hist' = [hist EXCEPT ![PathOf(r)] =
                            <<"call", loc[r].samples, loc[r].version_name,
                              loc[r].config>>]
            /\ UNCHANGED loc
       ELSE /\ fs' = [fs EXCEPT ![PathOf(r)].meta = TruncatedMeta(metadata)]
            /\ pc' = [pc EXCEPT ![r] = "raised"]
            /\ loc' = [loc EXCEPT ![r].err = "TypeError"]
            /\ hist' = [hist EXCEPT ![PathOf(r)] = <<"failed">>]
    /\ UNCHANGED calls
    /\ UNCHANGED fnVars
    /\ UNCHANGED regVars

PipeInit ==
    /\ fs = [p \in Paths |-> NoVersion]
    /\ pc = [r \in Runs |-> "idle"]
    /\ loc = [r \in Runs |-> NoLocals]
    /\ hist = [p \in Paths |-> <<"none">>]
    /\ calls = 0

FnIdle ==
    /\ fnIn = <<>>
    /\ fnOp = "none"
    /\ fnArg = 0
    /\ fnOut = <<>>

\* no registry file, no registry call yet
RegIdle ==
    /\ reg = NoFile
    /\ regStart = NoFile
    /\ regBefore = NoFile
    /\ regOp = "none"
    /\ regArg = <<>>
    /\ regOut = <<>>
    /\ regLog = <<>>

Init == PipeInit /\ FnIdle /\ RegIdle

\* one run at a time
Next ==
    \E r \in SeqRuns :
        \/ StartPipeline(r)
        \/ CallCreateVersion(r)
        \/ Mkdir(r)
        \/ OpenData(r)
        \/ WriteLine(r)
        \/ CloseData(r)
        \/ OpenMeta(r)
        \/ DumpMeta(r)

Spec == Init /\ [][Next]_vars

----------------------------------------------------------------------------
(* Inputs of the library functions *)

\* the sequences over S of length at most n
SeqsUpTo(S, n) == UNION {[1..k -> S] : k \in 0..n}

\* the elements of seq at the positions in I, in order
Pick(seq, I) ==
    LET F[k \in 0..Len(seq)] ==
            IF k = 0 THEN <<>>
            ELSE IF k \in I THEN Append(F[k - 1], seq[k]) ELSE F[k - 1]
    IN  F[Len(seq)]

FnSamples ==
    { Sample("s_0", <<"a">>, <<"b">>, "s"),
      Sample("t_9", <<"a">>, <<"b">>, "t"),
      Sample("s_1", <<"a", "a">>, <<"b", " ">>, "s"),
      Sample("s_3", <<" ", "\t">>, <<"b">>, "s"),
      Sample("s_4", <<"a">>, <<>>, "s"),
      Sample("s_5", <<" ", "a", "\n", "\n">>, <<"b">>, "s"),
      Sample("s_6", Rep("a", DefaultMaxRepeat + 1), Rep("b", DefaultMaxRepeat), "s") }

FnThresholds == {-1, 0, 1, 2}

Opt(key, values) == {EmptyDict} \cup {key :> v : v \in values}

FnConfigs ==
    { a @@ b @@ c @@ d @@ e :
        a \in Opt("remove_duplicates", {PyBool(FALSE), PyStr("no")}),
        b \in Opt("min_length", {PyInt(2)}),
        c \in Opt("filter_noise", {PyBool(TRUE)}),
        d \in Opt("noise_max_repeat", {PyInt(1)}),
        e \in Opt("version_name", {PyStr("v1")}) }

FilterKeys == {"remove_duplicates", "min_length", "filter_noise", "noise_max_repeat"}

Restrict(d, keys) == [k \in (DOMAIN d) \cap keys |-> d[k]]

----------------------------------------------------------------------------
(* The library functions applied to a sample sequence *)

ApplyRemoveEmpty ==
    /\ fnOp = "none"
    /\ fnOp' = "remove_empty_samples"
    /\ fnOut' = remove_empty_samples(fnIn)
    /\ UNCHANGED <<fnIn, fnArg>>
    /\ UNCHANGED pipeVars
    /\ UNCHANGED regVars

ApplyRemoveDuplicates ==
    /\ fnOp = "none"
    /\ fnOp' = "remove_duplicate_samples"
    /\ fnOut' = remove_duplicate_samples(fnIn)
    /\ UNCHANGED <<fnIn, fnArg>>
    /\ UNCHANGED pipeVars
    /\ UNCHANGED regVars

ApplyMinLength ==
    /\ fnOp = "none"
    /\ \E n \in FnThresholds :
        /\ fnOp' = "filter_by_min_length"
        /\ fnArg' = n
        /\ fnOut' = filter_by_min_length(fnIn, n)
    /\ UNCHANGED fnIn
    /\ UNCHANGED pipeVars
    /\ UNCHANGED regVars

ApplyFilterNoise ==
    /\ fnOp = "none"
    /\ \E n \in FnThresholds :
        /\ fnOp' = "filter_noise"
        /\ fnArg' = n
        /\ fnOut' = filter_noise(fnIn, n)
    /\ UNCHANGED fnIn
    /\ UNCHANGED pipeVars
    /\ UNCHANGED regVars

ApplyCleanAndFilter ==
    /\ fnOp = "none"
    /\ \E config \in FnConfigs :
        /\ fnOp' = "clean_and_filter"
        /\ fnArg' = config
        /\ fnOut' = clean_and_filter(fnIn, config)
    /\ UNCHANGED fnIn
    /\ UNCHANGED pipeVars
    /\ UNCHANGED regVars

\* the samples clean_and_filter returned, fed back with the same config
ReapplyCleanAndFilter ==
    /\ fnOp = "clean_and_filter"
    /\ fnOp' = "clean_and_filter_again"
    /\ fnOut' = clean_and_filter(fnOut, fnArg)
    /\ UNCHANGED <<fnIn, fnArg>>
    /\ UNCHANGED pipeVars
    /\ UNCHANGED regVars

FnInit ==
    /\ fnIn \in SeqsUpTo(FnSamples, MaxSamples)
    /\ fnOp = "none"
    /\ fnArg = 0
    /\ fnOut = <<>>

InitFn == FnInit /\ PipeInit /\ RegIdle

NextFn ==
    \/ ApplyRemoveEmpty
    \/ ApplyRemoveDuplicates
    \/ ApplyMinLength
    \/ ApplyFilterNoise
    \/ ApplyCleanAndFilter
    \/ ReapplyCleanAndFilter

SpecFn == InitFn /\ [][NextFn]_vars

----------------------------------------------------------------------------
(* Properties of the library functions *)

SamePair(s, t) == s.input = t.input /\ s.output = t.output

NonBlank(text) == \E k \in 1..Len(text) : text[k] \notin Whitespace

\* a run of one character longer than n
HasRunLongerThan(text, n) ==
    \E i \in 1..Len(text) : \E j \in i..Len(text) :
        /\ j - i + 1 > n
        /\ \A k \in i..j : text[k] = text[i]

\* C4: remove_duplicate_samples returns the subsequence of its input made of
\* the first occurrence of every distinct (input, output) pair, in the
\* original order; id and source play no part.
RemoveDuplicatesKeepsFirst ==
    fnOp = "remove_duplicate_samples" =>
        fnOut = Pick(fnIn, {i \in 1..Len(fnIn) :
                              \A j \in 1..(i - 1) : ~SamePair(fnIn[j], fnIn[i])})

RemoveDuplicatesWitness ==
    /\ fnOp = "remove_duplicate_samples"
    /\ Len(fnIn) = 3
    /\ SamePair(fnIn[1], fnIn[3]) /\ fnIn[1].id # fnIn[3].id
    /\ ~SamePair(fnIn[1], fnIn[2])
    /\ fnOut = <<fnIn[1], fnIn[2]>>

\* C5: remove_empty_samples returns the subsequence of exactly the samples
\* whose input and output both hold a non-whitespace character, in order.
RemoveEmptyKeepsNonBlank ==
    fnOp = "remove_empty_samples" =>
        fnOut = Pick(fnIn, {i \in 1..Len(fnIn) :
                              NonBlank(fnIn[i].input) /\ NonBlank(fnIn[i].output)})

RemoveEmptyWitness ==
    /\ fnOp = "remove_empty_samples"
    /\ Len(fnIn) = 3
    /\ ~NonBlank(fnIn[1].input) /\ fnIn[1].input # <<>>
    /\ fnIn[2].output = <<>> /\ NonBlank(fnIn[2].input)
    /\ fnOut = <<fnIn[3]>>
    /\ fnIn[3].input # strip(fnIn[3].input)

\* C6: clean_and_filter applies remove-empty, then remove-duplicates if
\* remove_duplicates is truthy, then the min-length filter if min_length is
\* present, then the noise filter (noise_max_repeat, or 10) if filter_noise is
\* truthy; an empty config gives remove_empty_samples; other keys are ignored.
CleanAndFilterStages ==
    fnOp = "clean_and_filter" =>
        LET dedup == "remove_duplicates" \in DOMAIN fnArg
                        /\ Truthy(fnArg["remove_duplicates"])
            noise == "filter_noise" \in DOMAIN fnArg /\ Truthy(fnArg["filter_noise"])
            limit == IF "noise_max_repeat" \in DOMAIN fnArg
                     THEN NumberOf(fnArg["noise_max_repeat"]) ELSE 10
            s1 == remove_empty_samples(fnIn)
            s2 == IF dedup THEN remove_duplicate_samples(s1) ELSE s1
            s3 == IF "min_length" \in DOMAIN fnArg
                  THEN filter_by_min_length(s2, NumberOf(fnArg["min_length"])) ELSE s2
            s4 == IF noise THEN filter_noise(s3, limit) ELSE s3
        IN  /\ fnOut = s4
            /\ fnArg = EmptyDict => fnOut = remove_empty_samples(fnIn)
            /\ \A other \in FnConfigs :
                  Restrict(other, FilterKeys) = Restrict(fnArg, FilterKeys)
                      => clean_and_filter(fnIn, other) = fnOut

CleanAndFilterWitness ==
    /\ fnOp = "clean_and_filter"
    /\ "remove_duplicates" \in DOMAIN fnArg /\ ~Truthy(fnArg["remove_duplicates"])
    /\ "version_name" \in DOMAIN fnArg
    /\ Truthy(Get(fnArg, "filter_noise", PyBool(FALSE)))
    /\ "noise_max_repeat" \notin DOMAIN fnArg
    /\ Len(fnIn) = 3
    /\ SamePair(fnIn[1], fnIn[2])
    /\ Len(fnIn[3].input) = DefaultMaxRepeat + 1
    /\ fnOut = <<fnIn[1], fnIn[2]>>

\* C7 (as claimed): for every integer maxRepeat, filter_noise drops a sample
\* iff its input or output has a run of one character longer than maxRepeat.
FilterNoiseDropsLongRuns ==
    fnOp = "filter_noise" =>
        fnOut = Pick(fnIn, {i \in 1..Len(fnIn) :
                              /\ ~HasRunLongerThan(fnIn[i].input, fnArg)
                              /\ ~HasRunLongerThan(fnIn[i].output, fnArg)})

----------------------------------------------------------------------------
(* Reading a version back *)

JsonUnescapes ==
    ("\"" :> "\"") @@ ("\\" :> "\\") @@ ("n" :> "\n") @@ ("r" :> "\r") @@ ("t" :> "\t")

\* the text of a JSON string whose opening quote is just before pos
RECURSIVE read_string(_, _, _)
read_string(toks, pos, acc) ==
    IF pos > Len(toks) THEN [val |-> acc, next |-> pos]
    ELSE IF toks[pos] = "\"" THEN [val |-> acc, next |-> pos + 1]
    ELSE IF toks[pos] = "\\" /\ pos < Len(toks) /\ toks[pos + 1] \in DOMAIN JsonUnescapes
         THEN read_string(toks, pos + 2, Append(acc, JsonUnescapes[toks[pos + 1]]))
    ELSE read_string(toks, pos + 1, Append(acc, toks[pos]))

\* "key": "value" starting at pos, and the position after it
read_field(toks, pos) ==
    LET key == read_string(toks, pos + 1, <<>>)
        val == read_string(toks, key.next + 2, <<>>)
    IN  [key |-> IF key.val = <<>> THEN "" ELSE key.val[1], val |-> val.val,
         next |-> val.next]

\* json.loads of a line of the data file: the fields found, by key
json_loads_line(line) ==
    LET f1 == read_field(line, 2)
        f2 == read_field(line, f1.next + 1)
        f3 == read_field(line, f2.next + 1)
        f4 == read_field(line, f3.next + 1)
    IN  (f1.key :> f1.val) @@ (f2.key :> f2.val) @@ (f3.key :> f3.val)
        @@ (f4.key :> f4.val)

Token(text) == IF text = <<>> THEN "" ELSE text[1]

HasFourFields(d) == DOMAIN d = {"id", "input", "output", "source"}

record_of(d) ==
    [id |-> Token(d["id"]), input |-> d["input"], output |-> d["output"],
     source |-> Token(d["source"])]

\* the lines of a text: the pieces its newlines end, and what follows the
\* last newline if that is not empty
split_lines(text) ==
    LET ends == {k \in 1..Len(text) : text[k] = "\n"}
        nth(n) == CHOOSE k \in ends : Cardinality({j \in ends : j <= k}) = n
        start(n) == IF n = 1 THEN 1 ELSE nth(n - 1) + 1
        count == Cardinality(ends)
        whole == [n \in 1..count |-> SubSeq(text, start(n), nth(n) - 1)]
        rest == SubSeq(text, start(count + 1), Len(text))
    IN  IF rest = <<>> THEN whole ELSE Append(whole, rest)

LinesOf(file) == split_lines(file[2])

IsComplete(v) ==
    /\ v.dir
    /\ v.data[1] = "file"
    /\ v.meta[1] = "file" /\ v.meta[2] = "json"

\* no run is writing the version at p
Quiescent(p) == \A r \in Runs : Active(r) => PathOf(r) # p

----------------------------------------------------------------------------
(* Properties of the pipeline *)

\* C1 (as claimed): a pipeline run that raises leaves the artifact tree as it
\* was before the run.
RaisedRunLeavesNoTrace ==
    \A r \in Runs :
        (pc[r] = "raised" /\ loc[r].entry = "pipeline") => fs = loc[r].before

\* C2: when create_dataset_version returns, the data file has len(samples)
\* lines, line k is the record of samples[k], and the metadata names the
\* version, counts the lines of the data file, carries the config passed in
\* and the hash of the samples stored in the data file.
ReturnedVersionIsConsistent ==
    \A r \in Runs : pc[r] = "returned" =>
        LET v == fs[PathOf(r)]
            lines == LinesOf(v.data)
            dicts == [k \in 1..Len(lines) |-> json_loads_line(lines[k])]
        IN  /\ IsComplete(v)
            /\ Len(lines) = Len(loc[r].samples)
            /\ \A k \in 1..Len(lines) :
                  /\ HasFourFields(dicts[k])
                  /\ record_of(dicts[k]) = _sample_to_dict(loc[r].samples[k])
            /\ v.meta[3].dataset_version = loc[r].version_name
            /\ v.meta[3].num_samples = Len(lines)
            /\ v.meta[3].config = loc[r].config
            /\ (\A k \in 1..Len(lines) : HasFourFields(dicts[k])) =>
                  v.meta[3].dataset_hash =
                      compute_dataset_hash([k \in 1..Len(lines) |-> record_of(dicts[k])])

ReturnedVersionWitness ==
    \E r \in Runs :
        /\ pc[r] = "returned"
        /\ Len(loc[r].samples) = 3
        /\ loc[r].config # EmptyDict
        /\ \E k \in 1..3 : \E j \in 1..Len(loc[r].samples[k].output) :
              loc[r].samples[k].output[j] \in DOMAIN JsonEscapes

RECURSIVE ConcatLines(_)
ConcatLines(samples) ==
    IF samples = <<>> THEN <<>>
    ELSE json_dumps_sample(Head(samples)) \o <<"\n">> \o ConcatLines(Tail(samples))

\* C3: whenever no run is writing a version, its directory holds exactly what
\* the last returned call for that name wrote (nothing, if there was none):
\* nothing of an earlier call survives and calls for other names leave it alone.
LastCallWins ==
    \A p \in Paths : Quiescent(p) =>
        /\ hist[p] = <<"none">> => fs[p] = NoVersion
        /\ hist[p][1] = "call" =>
              fs[p] = [dir |-> TRUE,
                       data |-> DataFile(ConcatLines(hist[p][2])),
                       meta |-> MetaFile([dataset_version |-> hist[p][3],
                                          num_samples |-> Len(hist[p][2]),
                                          config |-> hist[p][4],
                                          dataset_hash |->
                                              compute_dataset_hash(hist[p][2])])]

LastCallWinsWitness ==
    \E r \in Runs :
        /\ pc[r] = "returned"
        /\ IsComplete(loc[r].before[PathOf(r)])
        /\ Len(LinesOf(loc[r].before[PathOf(r)].data)) > Len(loc[r].samples)
        /\ loc[r].before[PathOf(r)].meta[3].config # loc[r].config
        /\ loc[r].samples # <<>>

\* the k-th record (from 1) of a data file holds this text as its input
RecordHasInput(file, k, text) ==
    CASE file.content[1] = "json" ->
            LET item == file.content[2][2][k][2] IN
            "input" \in DOMAIN item /\ item["input"][1] = "str" => text = item["input"][2]
      [] file.content[1] = "csv" ->
            LET row == csv_rows(file.content[2])[k] IN
            text = <<>> \/ \E c \in 1..Len(row) : row[c] = text
      [] OTHER ->
            LET line == file.content[2][k] IN
            text = SubSeq(line, 1, Len(text))

RecordCount(file) ==
    CASE file.content[1] = "json" -> Len(file.content[2][2])
      [] file.content[1] = "csv" -> Len(csv_rows(file.content[2]))
      [] OTHER -> Len(file.content[2])

\* the position in loaded of the sample with the id of s (0 if none)
LoadedPos(loaded, s) ==
    IF \E k \in 1..Len(loaded) : loaded[k].id = s.id
    THEN CHOOSE k \in 1..Len(loaded) : loaded[k].id = s.id
    ELSE 0

\* C8: the k-th record of the input file is the k-th loaded sample, with id
\* "<source>_<k>"; every sample that survives clean_and_filter is a loaded
\* sample, unchanged; the records of the written version have pairwise
\* distinct ids, in increasing order of their position in the input file.
IdsAssignedOnceAtIngestion ==
    \A r \in Runs : (loc[r].entry = "pipeline" /\ pc[r] \notin {"idle", "raised"}) =>
        LET loaded == loc[r].loaded
            samples == loc[r].samples
            file == DataFiles[loc[r].input_path]
            pos == [j \in 1..Len(samples) |-> LoadedPos(loaded, samples[j])]
        IN  /\ Len(loaded) = RecordCount(file)
            /\ \A k \in 1..Len(loaded) :
                  /\ loaded[k].id = loc[r].source \o "_" \o ToString(k - 1)
                  /\ loaded[k].source = loc[r].source
                  /\ RecordHasInput(file, k, loaded[k].input)
            /\ \A j \in 1..Len(samples) :
                  /\ pos[j] > 0
                  /\ samples[j] = loaded[pos[j]]
                  /\ j > 1 => pos[j - 1] < pos[j]
            /\ pc[r] = "returned" =>
                  LET lines == LinesOf(fs[PathOf(r)].data)
                      written == [k \in 1..Len(lines) |->
                                      record_of(json_loads_line(lines[k]))]
                  IN  /\ Len(written) = Len(samples)
                      /\ \A j \in 1..Len(written) :
                            /\ LoadedPos(loaded, written[j]) > 0
                            /\ written[j] = loaded[LoadedPos(loaded, written[j])]
                            /\ \A i \in 1..(j - 1) :
                                  /\ written[i].id # written[j].id
                                  /\ LoadedPos(loaded, written[i])
                                        < LoadedPos(loaded, written[j])

IdsWitness ==
    \E r \in Runs :
        /\ loc[r].entry = "pipeline"
        /\ pc[r] = "returned"
        /\ Len(loc[r].loaded) = 5
        /\ Len(LinesOf(fs[PathOf(r)].data)) = 2
        /\ loc[r].samples[2].id = loc[r].source \o "_3"
        /\ loc[r].config["remove_duplicates"] = PyBool(TRUE)

\* C9 (as claimed): loading a CSV file whose header has fewer than two
\* columns raises, whatever rows follow; when samples are returned, the input
\* column and the output column are two distinct columns.
CsvNeedsTwoColumns ==
    \A r \in Runs :
        (/\ loc[r].entry = "pipeline"
         /\ loc[r].input_path \in DOMAIN DataFiles
         /\ DataFiles[loc[r].input_path].content[1] = "csv") =>
            LET fieldnames == csv_fieldnames(DataFiles[loc[r].input_path].content[2])
            IN  /\ Len(fieldnames) < 2 => pc[r] = "raised"
                /\ (pc[r] # "raised" /\ loc[r].loaded # <<>>) =>
                      input_col_of(fieldnames) # output_col_of(fieldnames)

\* C10: the dataset_hash of a version is decided by its sample sequence and
\* by nothing else: two versions hold the same hash exactly when they were
\* written from the same sequence of (id, input, output, source), whatever
\* their version_name, config and output_dir.
HashDecidedBySamples ==
    \A p \in Paths : \A q \in Paths :
        (/\ Quiescent(p) /\ Quiescent(q)
         /\ hist[p][1] = "call" /\ hist[q][1] = "call") =>
            /\ fs[p].meta[2] = "json" /\ fs[q].meta[2] = "json"
            /\ (fs[p].meta[3].dataset_hash = fs[q].meta[3].dataset_hash)
                  <=> (hist[p][2] = hist[q][2])

HashWitness ==
    \E p \in Paths : \E q \in Paths :
        /\ p[1] # q[1] /\ p[2] # q[2]
        /\ hist[p][1] = "call" /\ hist[q][1] = "call"
        /\ hist[p][4] # hist[q][4]
        /\ hist[p][2] = hist[q][2] /\ Len(hist[p][2]) = 2
        /\ fs[p].meta[3].dataset_hash = fs[q].meta[3].dataset_hash

----------------------------------------------------------------------------
(* The model registry: src/training/registry.py *)

\* most metadata records one registry receives
MaxRegistered == 3

PyDict(d) == <<"dict", d>>
PyList(l) == <<"list", l>>

\* the values of a JSON text
JObject(members) == <<"object", members>>
JArray(elements) == <<"array", elements>>
JString(s) == <<"string", s>>
JNumber(n) == <<"number", n>>
JTrue == <<"true", 1>>
JFalse == <<"false", 0>>
JNull == <<"null", 0>>

\* a file holding the JSON text of a document; a file holding other text
JsonFile(doc) == <<"file", "json", doc>>
TextFile(text) == <<"file", "text", text>>

\* json.dump: the JSON text of a Python value
RECURSIVE json_dump_value(_)
json_dump_value(v) ==
    CASE v[1] = "dict" -> JObject([k \in DOMAIN v[2] |-> json_dump_value(v[2][k])])
      [] v[1] = "list" -> JArray([k \in 1..Len(v[2]) |-> json_dump_value(v[2][k])])
      [] v[1] = "str" -> JString(v[2])
      [] v[1] = "int" -> JNumber(v[2])
      [] v[1] = "bool" -> IF v[2] THEN JTrue ELSE JFalse
      [] OTHER -> JNull

\* json.load: the Python value of a JSON text
RECURSIVE json_load_value(_)
json_load_value(j) ==
    CASE j[1] = "object" -> PyDict([k \in DOMAIN j[2] |-> json_load_value(j[2][k])])
      [] j[1] = "array" -> PyList([k \in 1..Len(j[2]) |-> json_load_value(j[2][k])])
      [] j[1] = "string" -> PyStr(j[2])
      [] j[1] = "number" -> PyInt(j[2])
      [] j[1] = "true" -> PyBool(TRUE)
      [] j[1] = "false" -> PyBool(FALSE)
      [] OTHER -> PyNone

EmptyRegistry == PyDict([models |-> PyList(<<>>)])

\* _load_registry(registry_path)
load_registry(file) ==
    IF file = NoFile THEN Ok(EmptyRegistry)
    ELSE IF file[2] # "json" THEN Raise("JSONDecodeError")
    ELSE LET data == json_load_value(file[3]) IN
         IF data[1] # "dict" THEN Ok(EmptyRegistry)
         ELSE IF "models" \notin DOMAIN data[2] THEN Ok(EmptyRegistry)
         ELSE IF data[2]["models"][1] # "list" THEN Ok(EmptyRegistry)
         ELSE Ok(data)

\* _save_registry(registry_path, data): the file is rewritten
save_registry(data) == JsonFile(json_dump_value(data))

\* faulty variant: the new entry replaces the entries of the same version
models_upserted(models, model_metadata) ==
    Append(Pick(models, {k \in 1..Len(models) :
                            \/ models[k][1] # "dict"
                            \/ "model_version" \notin DOMAIN models[k][2]
                            \/ "model_version" \notin DOMAIN model_metadata[2]
                            \/ models[k][2]["model_version"]
                                  # model_metadata[2]["model_version"]}),
           model_metadata)

\* data["models"].append(model_metadata)
models_appended(models, model_metadata) == Append(models, model_metadata)

\* register_model(model_metadata, registry_path): the file left and the outcome
register_model(model_metadata, file) ==
    LET loaded == load_registry(file) IN
    IF ~loaded.ok THEN [file |-> file, out |-> Raise(loaded.err)]
    ELSE LET data == loaded.val[2]
             models == models_appended(data["models"][2], model_metadata)
         IN  [file |-> save_registry(PyDict([data EXCEPT !["models"] = PyList(models)])),
              out |-> Ok(PyNone)]

\* list_models(registry_path)
list_models(file) ==
    LET loaded == load_registry(file) IN
    IF ~loaded.ok THEN Raise(loaded.err)
    ELSE Ok(loaded.val[2]["models"][2])

\* isinstance(m, dict) and m.get("model_version") == model_version
is_model(m, model_version) ==
    /\ m[1] = "dict"
    /\ "model_version" \in DOMAIN m[2]
    /\ m[2]["model_version"] = PyStr(model_version)

\* get_model(model_version, registry_path)
get_model(model_version, file) ==
    LET listed == list_models(file) IN
    IF ~listed.ok THEN Raise(listed.err)
    ELSE LET models == listed.val
             found == {k \in 1..Len(models) : is_model(models[k], model_version)}
         IN  IF found = {} THEN Raise("KeyError")
             ELSE Ok(models[CHOOSE k \in found : \A j \in found : k <= j])

\* the states in which the registry file can be found
RegistryFiles ==
    {NoFile,
     TextFile("not json"),
     TextFile(""),
     JsonFile(JArray(<<JNumber(1)>>)),
     JsonFile(JObject([other |-> JNumber(1)])),
     JsonFile(JObject([models |-> JString("x"), keep |-> JNumber(2)])),
     JsonFile(JObject([models |-> JArray(<<JNumber(3),
                                           JObject([model_version |-> JString("v0")])>>),
                       keep |-> JNumber(2)]))}

\* metadata records, as load_model_metadata reads them from metadata.json
mV1 ==
    PyDict([model_version |-> PyStr("v1"), base_model |-> PyStr("b"),
            num_training_samples |-> PyInt(2),
            training_config |-> PyDict([epochs |-> PyInt(1), resume |-> PyBool(FALSE)])])
mV2 == PyDict([model_version |-> PyStr("v2"), num_training_samples |-> PyInt(0)])
mV1Again == PyDict([model_version |-> PyStr("v1"), num_training_samples |-> PyInt(5)])
mUnversioned == PyDict([base_model |-> PyStr("b"), tags |-> PyList(<<PyStr("x"), PyNone>>)])

ModelMetadata == {mV1, mV2, mV1Again, mUnversioned}

ModelVersions == {"v0", "v1", "v2", "v9"}

RegisterModel ==
    /\ Len(regLog) < MaxRegistered
    /\ \E model_metadata \in ModelMetadata :
        LET done == register_model(model_metadata, reg) IN
        /\ reg' = done.file
        /\ regArg' = model_metadata
        /\ regOut' = done.out
        /\ regLog' = IF done.out.ok THEN Append(regLog, model_metadata) ELSE regLog
    /\ regBefore' = reg
    /\ regOp' = "register_model"
    /\ UNCHANGED regStart
    /\ UNCHANGED pipeVars
    /\ UNCHANGED fnVars

ListModels ==
    /\ regOut' = list_models(reg)
    /\ regBefore' = reg
    /\ regOp' = "list_models"
    /\ regArg' = <<>>
    /\ UNCHANGED <<reg, regStart, regLog>>
    /\ UNCHANGED pipeVars
    /\ UNCHANGED fnVars

GetModel ==
    /\ \E model_version \in ModelVersions :
        /\ regOut' = get_model(model_version, reg)
        /\ regArg' = model_version
    /\ regBefore' = reg
    /\ regOp' = "get_model"
    /\ UNCHANGED <<reg, regStart, regLog>>
    /\ UNCHANGED pipeVars
    /\ UNCHANGED fnVars

RegInit ==
    /\ reg \in RegistryFiles
    /\ regStart = reg
    /\ regBefore = reg
    /\ regOp = "none"
    /\ regArg = <<>>
    /\ regOut = <<>>
    /\ regLog = <<>>

InitReg == RegInit /\ PipeInit /\ FnIdle

NextReg ==
    \/ RegisterModel
    \/ ListModels
    \/ GetModel

SpecReg == InitReg /\ [][NextReg]_vars

----------------------------------------------------------------------------
(* Properties of the registry *)

\* the registry file is absent, or does not hold an object with a list of models
AbsentOrMalformed(file) ==
    \/ file = NoFile
    \/ file[2] # "json"
    \/ file[3][1] # "object"
    \/ "models" \notin DOMAIN file[3][2]
    \/ file[3][2]["models"][1] # "array"

\* C11 (as claimed): on a registry file that is absent or malformed in any
\* way (not JSON, root not an object, no models key, models not a list),
\* list_models returns the empty list and register_model succeeds; neither
\* raises.
MalformedRegistryIsEmpty ==
    AbsentOrMalformed(regBefore) =>
        /\ regOp = "list_models" => regOut.ok /\ regOut.val = <<>>
        /\ regOp = "register_model" => regOut.ok

----------------------------------------------------------------------------
(* Concurrent calls of create_dataset_version *)

\* two callers, each step of either taken in any order: nothing in
\* create_dataset_version locks the version directory
NextConc ==
    \E r \in Runs :
        \/ CallCreateVersion(r)
        \/ Mkdir(r)
        \/ OpenData(r)
        \/ WriteLine(r)
        \/ CloseData(r)
        \/ OpenMeta(r)
        \/ DumpMeta(r)

SpecConc == Init /\ [][NextConc]_vars

\* what one call of create_dataset_version, running alone, leaves at its path
OutputOf(r) ==
    [dir |-> TRUE,
     data |-> DataFile(ConcatLines(loc[r].samples)),
     meta |-> MetaFile(metadata_of(loc[r].samples, loc[r].version_name,
                                   loc[r].config))]

\* C12 (as claimed): once two runs that target the same version have both
\* returned, the version directory holds the complete output of one of them:
\* data file and metadata come from the same run.
ConcurrentLastWriteWins ==
    \A r \in Runs : \A q \in Runs :
        (/\ r # q
         /\ pc[r] = "returned" /\ pc[q] = "returned"
         /\ PathOf(r) = PathOf(q)) =>
            \E w \in {r, q} : fs[PathOf(r)] = OutputOf(w)

----------------------------------------------------------------------------
(* The registry as a log *)

\* m is a record of the given model version
HasVersion(m, model_version) ==
    /\ m[1] = "dict"
    /\ "model_version" \in DOMAIN m[2]
    /\ m[2]["model_version"] = PyStr(model_version)

\* C13: starting from an absent registry file, list_models returns exactly
\* the registered metadata records (JSON documents) in call order; every
\* register_model call succeeds and leaves the earlier entries as they were
\* with the new record after them, also for a version registered before;
\* get_model(v) returns a registered record of version v if there is one and
\* raises KeyError otherwise.
RegistryIsAppendOnly ==
    regStart = NoFile =>
        /\ list_models(reg) = Ok(regLog)
        /\ regOp = "list_models" => regOut = Ok(regLog)
        /\ regOp = "register_model" =>
              /\ regOut.ok
              /\ list_models(regBefore).ok
              /\ list_models(reg).val = Append(list_models(regBefore).val, regArg)
        /\ regOp = "get_model" =>
              IF \E k \in 1..Len(regLog) : HasVersion(regLog[k], regArg)
              THEN /\ regOut.ok
                   /\ \E k \in 1..Len(regLog) : regLog[k] = regOut.val
                   /\ HasVersion(regOut.val, regArg)
              ELSE ~regOut.ok /\ regOut.err = "KeyError"

RegistryWitness ==
    /\ regStart = NoFile
    /\ regOp = "get_model" /\ regArg = "v1"
    /\ Len(regLog) = 3
    /\ HasVersion(regLog[1], "v1") /\ HasVersion(regLog[3], "v1")
    /\ regLog[1] # regLog[3]
    /\ ~HasVersion(regLog[2], "v1")
    /\ regOut.ok /\ regOut.val = regLog[1]

----------------------------------------------------------------------------
(* Filtering twice *)

\* C14: clean_and_filter is idempotent: fed back with the same config, the
\* samples it returned come back unchanged, whatever the combination of
\* remove_duplicates, min_length, filter_noise and noise_max_repeat.
CleanAndFilterIdempotent == [][ReapplyCleanAndFilter => fnOut' = fnOut]_vars

IdempotentWitness ==
    /\ fnOp = "clean_and_filter_again"
    /\ Truthy(Get(fnArg, "remove_duplicates", PyBool(FALSE)))
    /\ "min_length" \in DOMAIN fnArg
    /\ Truthy(Get(fnArg, "filter_noise", PyBool(FALSE)))
    /\ Len(fnIn) = 3
    /\ SamePair(fnIn[1], fnIn[2])
    /\ fnOut = <<fnIn[1]>>

=============================================================================
